---- MODULE Spec2Model ----
(***************************************************************************)
(* A model of CrosswordCreator (src/generate.py): domain initialisation,   *)
(* node consistency, AC-3 with revise, the two ordering heuristics, the    *)
(* consistency check and the recursive backtracking search, run over a     *)
(* bounded family of puzzles.                                              *)
(*                                                                         *)
(* A word is a tuple of letters; Python's 0-based index w[i] is w[i+1].    *)
(* The overlap value None is the empty tuple, an overlap (i, j) is the     *)
(* tuple <<i, j>>.                                                         *)
(***************************************************************************)
EXTENDS Integers, Sequences, FiniteSets, TLC

\* ------------------------------------------------------------------ bounds

\* Longest word of the vocabulary universe.
MaxLen == 2

\* Largest vocabulary (number of words in crossword.words).
MaxVocab == 3

\* Number of ac3() calls a client makes in a row in SpecAc3.
MaxCalls == 2

Alphabet == {"A", "B"}

\* Every word over Alphabet of length 1..MaxLen.
Universe == UNION {[1..n -> Alphabet] : n \in 1..MaxLen}

\* The vocabularies a puzzle may come with.
Vocabularies == {W \in SUBSET Universe : Cardinality(W) <= MaxVocab}

\* ------------------------------------------------------------ puzzle model

None == <<>>

\* overlaps[u, v] for every ordered pair of distinct variables, built from the
\* crossings (u, v, offset in u, offset in v); symmetric by construction.
MkOverlaps(vs, cross) ==
    [p \in {q \in vs \X vs : q[1] # q[2]} |->
        IF \E c \in cross : c[1] = p[1] /\ c[2] = p[2]
        THEN LET c == CHOOSE c \in cross : c[1] = p[1] /\ c[2] = p[2]
             IN  <<c[3], c[4]>>
        ELSE IF \E c \in cross : c[1] = p[2] /\ c[2] = p[1]
        THEN LET c == CHOOSE c \in cross : c[1] = p[2] /\ c[2] = p[1]
             IN  <<c[4], c[3]>>
        ELSE None]

MkGrid(vs, len, cross) ==
    [variables |-> vs, length |-> len, overlaps |-> MkOverlaps(vs, cross)]

\* x across, y down through x's second cell, z across through y's second cell.
GridPath ==
    MkGrid({"x", "y", "z"}, [v \in {"x", "y", "z"} |-> 2],
           {<<"x", "y", 1, 0>>, <<"y", "z", 1, 0>>})

\* Three mutually overlapping slots (spec.md, scenario 3).
GridCycle ==
    MkGrid({"x", "y", "z"}, [v \in {"x", "y", "z"} |-> 2],
           {<<"x", "y", 0, 0>>, <<"y", "z", 1, 1>>, <<"x", "z", 1, 0>>})

\* A 2-letter slot crossing a 3-letter slot, and an isolated 1-letter slot.
GridMixed ==
    MkGrid({"x", "y", "z"}, ("x" :> 2) @@ ("y" :> 3) @@ ("z" :> 1),
           {<<"x", "y", 0, 2>>})

\* Two crossing 3-letter slots.
GridLong ==
    MkGrid({"x", "y"}, [v \in {"x", "y"} |-> 3], {<<"x", "y", 1, 1>>})

\* A 1-letter slot x on the first cell of y, whose second cell starts z.
GridChain ==
    MkGrid({"x", "y", "z"}, ("x" :> 1) @@ ("y" :> 2) @@ ("z" :> 2),
           {<<"x", "y", 0, 0>>, <<"y", "z", 1, 0>>})

\* A single isolated 3-letter slot (spec.md, scenario 2 at length 3).
GridSingle ==
    MkGrid({"x"}, [v \in {"x"} |-> 3], {})

Grids == {GridPath, GridCycle, GridMixed, GridLong, GridChain, GridSingle}

VARIABLES
    crossword,      \* the puzzle: variables, length, overlaps, words
    domains,        \* self.domains
    pc,             \* where the client / solve() is
    pending,        \* ac3: the part of the initial arcs list not yet popped
    arcs,           \* ac3: the arcs appended since, a stack (last is popped first)
    defaultArcs,    \* ac3: called with arcs=None
    arc,            \* ac3: the arc (x, y) popped last
    revised,        \* ac3: what revise(x, y) returned for it
    ac3Result,      \* what the last ac3 call returned: "True", "False" ("none" before)
    calls,          \* number of ac3 calls made
    prevCall,       \* the ac3 call before the current one: [made, default, result]
    domAtCall,      \* self.domains when the current ac3 call was entered
    assignment,     \* the dict the search works on
    stack,          \* the backtrack frames, root first
    result,         \* what the backtrack call that returned last returned
    solveResult,    \* what solve() returned
    arg,            \* SpecCalls: the `var` a client passes to order_domain_values
    ret             \* SpecCalls: what the method a client called returned

vars == <<crossword, domains, pc, pending, arcs, defaultArcs, arc, revised,
          ac3Result, calls, prevCall, domAtCall, assignment, stack, result,
          solveResult, arg, ret>>

Variables == crossword.variables
Length(v) == crossword.length[v]
Overlaps(u, v) == crossword.overlaps[<<u, v>>]
Words == crossword.words

\* Python truthiness of an overlap value: None is falsy, a pair is truthy.
Truthy(overlap) == Len(overlap) > 0

\* crossword.neighbors(var)
Neighbors(var) == {v \in Variables : v # var /\ Truthy(Overlaps(v, var))}

\* The orders in which a set may be iterated.
Orders(S) ==
    {s \in [1..Cardinality(S) -> S] : \A i, j \in 1..Cardinality(S) : s[i] = s[j] => i = j}

\* dict(): the assignment with no entry.
EmptyAssignment == [v \in {} |-> None]

\* What solve() returns: None, or the assignment.
NoneResult == [isNone |-> TRUE]
SomeResult(a) == [isNone |-> FALSE, value |-> a]

\* No variable (yet).
NoVar == "-"

\* No ac3 call came before the current one.
NoCall == [made |-> FALSE, default |-> FALSE, result |-> "none"]

\* -------------------------------------------------- __init__ and the filter

\* CrosswordCreator(crossword): every domain is a copy of crossword.words.
Init ==
    /\ \E g \in Grids, W \in Vocabularies :
         crossword = [variables |-> g.variables, length |-> g.length,
                      overlaps |-> g.overlaps, words |-> W]
    /\ domains = [v \in crossword.variables |-> crossword.words]
    /\ pc = "start"
    /\ pending = {}
    /\ arcs = <<>>
    /\ defaultArcs = TRUE
    /\ arc = None
    /\ revised = FALSE
    /\ ac3Result = "none"
    /\ calls = 0
    /\ prevCall = NoCall
    /\ domAtCall = domains
    /\ assignment = EmptyAssignment
    /\ stack = <<>>
    /\ result = "none"
    /\ solveResult = NoneResult
    /\ arg = NoVar
    /\ ret = "none"

\* Mutant of NodeConsistent: only the values that are too long are removed.
NodeConsistentLonger(d) ==
    [variable \in DOMAIN d |->
        d[variable] \ {value \in d[variable] : Len(value) > Length(variable)}]

\* The domains enforce_node_consistency leaves: from each domain, the values
\* of the wrong length are removed.
NodeConsistent(d) ==
    [variable \in DOMAIN d |->
        d[variable] \ {value \in d[variable] : Len(value) # Length(variable)}]

EnforceNodeConsistency ==
    /\ pc = "start"
    /\ domains' = NodeConsistent(domains)
    /\ pc' = "ac3_call"
    /\ UNCHANGED <<crossword, arg, ret, pending, arcs, defaultArcs, arc, revised, ac3Result,
                   calls, prevCall, domAtCall, assignment, stack, result, solveResult>>

\* ------------------------------------------------------------------ revise

\* The values of d[x] that no value of d[y] supports at the overlap of (x, y).
Unsupported(d, x, y) ==
    LET overlap == Overlaps(x, y)
    IN  IF overlap # None /\ Len(overlap) = 2
        THEN {valueX \in d[x] :
                ~ \E valueY \in d[y] :
                    valueY[overlap[2] + 1] = valueX[overlap[1] + 1]}
        ELSE {}

\* Mutant of Revise: a value is kept only if every value of y agrees with it
\* (all() for any()).
ReviseAll(d, x, y) ==
    LET overlap == Overlaps(x, y)
        removed ==
            IF overlap # None /\ Len(overlap) = 2
            THEN {valueX \in d[x] :
                    ~ \A valueY \in d[y] :
                        valueY[overlap[2] + 1] = valueX[overlap[1] + 1]}
            ELSE {}
    IN  [domains |-> [d EXCEPT ![x] = @ \ removed], revised |-> removed # {}]

\* Mutant of Revise: the loop stops at the first value it removes.
ReviseOne(d, x, y) ==
    LET removed ==
            IF Unsupported(d, x, y) = {} THEN {}
            ELSE {CHOOSE valueX \in Unsupported(d, x, y) : TRUE}
    IN  [domains |-> [d EXCEPT ![x] = @ \ removed], revised |-> removed # {}]

\* Mutant of Revise: the values of y without support in x are removed too.
ReviseBoth(d, x, y) ==
    [domains |-> [d EXCEPT ![x] = @ \ Unsupported(d, x, y),
                           ![y] = @ \ Unsupported(d, y, x)],
     revised |-> Unsupported(d, x, y) # {}]

\* Mutant of Revise: `revised` is never set.
ReviseNoFlag(d, x, y) ==
    [domains |-> [d EXCEPT ![x] = @ \ Unsupported(d, x, y)], revised |-> FALSE]

\* revise(x, y) on domains d: the new domains and the value returned.
Revise(d, x, y) ==
    LET overlap == Overlaps(x, y)
        X_copy == d[x]
        removed ==
            IF overlap # None /\ Len(overlap) = 2
            THEN {valueX \in X_copy :
                    ~ \E valueY \in d[y] :
                        valueY[overlap[2] + 1] = valueX[overlap[1] + 1]}
            ELSE {}
    IN  [domains |-> [d EXCEPT ![x] = @ \ removed], revised |-> removed # {}]

\* --------------------------------------------------------------------- ac3

\* The initial list of all arcs: every key of crossword.overlaps whose value
\* is not None.
AllArcs == {p \in DOMAIN crossword.overlaps : crossword.overlaps[p] # None}

\* The explicit `arcs` lists a client may pass: one pair of distinct
\* variables, overlapping or not.
ExplicitArcs == {<<p>> : p \in DOMAIN crossword.overlaps}

Ac3Enter(isDefault, initial, given) ==
    /\ pc = "ac3_call"
    /\ pending' = initial
    /\ arcs' = given
    /\ defaultArcs' = isDefault
    /\ arc' = None
    /\ revised' = FALSE
    /\ ac3Result' = "none"
    /\ calls' = calls + 1
    /\ domAtCall' = domains
    /\ pc' = "ac3_loop"
    /\ UNCHANGED <<crossword, arg, ret, domains, prevCall, assignment, stack, result, solveResult>>

\* ac3(): arcs is None, the worklist is the list of all arcs, in the order the
\* overlaps dict yields them (left open: `pending` is popped in any order).
Ac3Default == Ac3Enter(TRUE, AllArcs, <<>>)

\* ac3(arcs): the worklist is the list given.
Ac3Explicit == \E given \in ExplicitArcs : Ac3Enter(FALSE, {}, given)

\* Mutant of Enqueued: no arc is appended after a revision.
EnqueuedNone(x, y) == {<<>>}

\* The arcs appended after revise(x, y) changed domains[x]: (z, x) for every
\* neighbor z of x but y, in the order the neighbor set is iterated.
Enqueued(x, y) ==
    {[i \in DOMAIN zs |-> <<zs[i], x>>] : zs \in Orders(Neighbors(x) \ {y})}

\* The body of the while loop for the popped arc (x, y), the rest of the
\* worklist being (restPending, restArcs).
Ac3Body(x, y, restPending, restArcs) ==
    LET r == Revise(domains, x, y)
    IN  /\ domains' = r.domains
        /\ arc' = <<x, y>>
        /\ revised' = r.revised
        /\ pending' = restPending
        /\ IF r.revised /\ Cardinality(r.domains[x]) = 0
           THEN /\ ac3Result' = "False"
                /\ arcs' = restArcs
                /\ pc' = "ac3_ret"
           ELSE /\ ac3Result' = ac3Result
                /\ IF r.revised
                   THEN \E more \in Enqueued(x, y) : arcs' = restArcs \o more
                   ELSE arcs' = restArcs
                /\ pc' = "ac3_loop"
        /\ UNCHANGED <<crossword, arg, ret, defaultArcs, calls, prevCall, domAtCall,
                       assignment, stack, result, solveResult>>

\* One iteration of `while arcs`: arcs.pop() takes the last element of the
\* list, which is the arc appended last or, when none is left of those, the
\* last of what is left of the initial list.
Ac3Step ==
    /\ pc = "ac3_loop"
    /\ \/ /\ arcs # <<>>
          /\ Ac3Body(arcs[Len(arcs)][1], arcs[Len(arcs)][2], pending,
                     SubSeq(arcs, 1, Len(arcs) - 1))
       \/ /\ arcs = <<>>
          /\ \E a \in pending : Ac3Body(a[1], a[2], pending \ {a}, arcs)

\* The worklist is empty: return True.
Ac3Exit ==
    /\ pc = "ac3_loop"
    /\ arcs = <<>>
    /\ pending = {}
    /\ ac3Result' = "True"
    /\ pc' = "ac3_ret"
    /\ UNCHANGED <<crossword, arg, ret, domains, pending, arcs, defaultArcs, arc, revised,
                   calls, prevCall, domAtCall, assignment, stack, result, solveResult>>

\* A client calls ac3 again right after a call returned.
Ac3Again ==
    /\ pc = "ac3_ret"
    /\ calls < MaxCalls
    /\ prevCall' = [made |-> TRUE, default |-> defaultArcs, result |-> ac3Result]
    /\ pc' = "ac3_call"
    /\ UNCHANGED <<crossword, arg, ret, domains, pending, arcs, defaultArcs, arc, revised,
                   ac3Result, calls, domAtCall, assignment, stack, result, solveResult>>

\* ------------------------------------------------- the search's helpers

\* Mutant of AssignmentComplete: one assigned variable is enough.
AssignmentCompleteAny(a) == \E variable \in DOMAIN domains : variable \in DOMAIN a

\* assignment_complete(assignment)
AssignmentComplete(a) == \A variable \in DOMAIN domains : variable \in DOMAIN a

\* No assigned neighbor of an assigned variable conflicts with it at the
\* overlap (lines 220-225); read only where the assigned words have their
\* variables' lengths.
NoConflict(a) ==
    \A variable \in DOMAIN a :
        \A neighbor \in Neighbors(variable) :
            neighbor \in DOMAIN a =>
              LET overlap == Overlaps(variable, neighbor)
              IN  ~ (Truthy(overlap)
                     /\ a[variable][overlap[1] + 1] # a[neighbor][overlap[2] + 1])

\* Mutant of Consistent: the check that the values are distinct is missing.
ConsistentNoDistinct(a) ==
    /\ \A variable \in DOMAIN a : Length(variable) = Len(a[variable])
    /\ NoConflict(a)

\* Mutant of Consistent: the check of the neighbors is missing.
ConsistentNoOverlap(a) ==
    /\ \A variable1, variable2 \in DOMAIN a :
         ~ (variable2 # variable1 /\ a[variable1] = a[variable2])
    /\ \A variable \in DOMAIN a : Length(variable) = Len(a[variable])

\* consistent(assignment), the value of is_consistent it returns: the values
\* are distinct, each has its variable's length, and no assigned neighbor
\* conflicts at the overlap.
Consistent(a) ==
    /\ \A variable1, variable2 \in DOMAIN a :
         ~ (variable2 # variable1 /\ a[variable1] = a[variable2])
    /\ \A variable \in DOMAIN a : Length(variable) = Len(a[variable])
    /\ NoConflict(a)

\* assignment[neighbor][overlap[1]] at line 223 is out of range: the
\* neighbor's word is too short to reach the overlap.
OutOfRange(a, variable, neighbor) ==
    Len(a[neighbor]) < Overlaps(variable, neighbor)[2] + 1

\* The neighbor loop of `variable` (lines 220-225), the neighbors coming in
\* the order nseq, raises IndexError: it comes to an assigned neighbor whose
\* word is too short before a conflict has made it break.
RaisesAt(a, variable, nseq) ==
    \E k \in DOMAIN nseq :
        /\ nseq[k] \in DOMAIN a
        /\ OutOfRange(a, variable, nseq[k])
        /\ \A m \in 1..(k - 1) :
             nseq[m] \in DOMAIN a =>
                /\ ~ OutOfRange(a, variable, nseq[m])
                /\ a[variable][Overlaps(variable, nseq[m])[1] + 1]
                      = a[nseq[m]][Overlaps(variable, nseq[m])[2] + 1]

\* The loop of line 212, the assignment being iterated in the order `order`,
\* comes to order[i]'s neighbors: no variable up to it has a word of the
\* wrong length (which breaks the loop at line 217).
Reaches(a, order, i) ==
    \A j \in 1..i : Length(order[j]) = Len(a[order[j]])

\* What a call consistent(assignment) may do, over the orders in which the
\* dict and the neighbor sets are iterated: raise IndexError, or return
\* is_consistent.
ConsistentOutcomes(a) ==
    LET raises ==
            \E order \in Orders(DOMAIN a) : \E i \in DOMAIN order :
                /\ Reaches(a, order, i)
                /\ \E nseq \in Orders(Neighbors(order[i])) : RaisesAt(a, order[i], nseq)
        returns ==
            \E order \in Orders(DOMAIN a) : \A i \in DOMAIN order :
                Reaches(a, order, i) =>
                    \E nseq \in Orders(Neighbors(order[i])) : ~ RaisesAt(a, order[i], nseq)
    IN  (IF raises THEN {"IndexError"} ELSE {})
        \cup (IF returns THEN {IF Consistent(a) THEN "True" ELSE "False"} ELSE {})

\* order_domain_values: value_ruleout[value], the number of neighbor values
\* the value rules out among the neighbors not in the assignment.
ValueRuleout(var, a, value) ==
    LET open == {neighbor \in Neighbors(var) : neighbor \notin DOMAIN a}
        hits == {p \in open \X UNION {domains[n] : n \in open} :
                   /\ p[2] \in domains[p[1]]
                   /\ LET overlap == Overlaps(var, p[1])
                      IN  Truthy(overlap)
                          /\ value[overlap[1] + 1] # p[2][overlap[2] + 1]}
    IN  Cardinality(hits)

\* Mutant of OrderDomainValues: the list is sorted by descending count.
OrderDomainValuesDesc(var, a) ==
    {s \in Orders(domains[var]) :
        \A i, j \in DOMAIN s :
            i < j => ValueRuleout(var, a, s[i]) >= ValueRuleout(var, a, s[j])}

\* order_domain_values(var, assignment): the lists sorted() may return, the
\* keys of value_ruleout (the values of domains[var]) by ascending count;
\* sorted() is stable, so values of equal count keep the order the set
\* yielded them in, which is left open.
OrderDomainValues(var, a) ==
    {s \in Orders(domains[var]) :
        \A i, j \in DOMAIN s :
            i < j => ValueRuleout(var, a, s[i]) <= ValueRuleout(var, a, s[j])}

\* order_domain_values(var, assignment) returns domains[var] sorted by
\* ascending count, values of equal count in the order the set yields them,
\* which is left open. The for loop of backtrack walks that list: with
\* `remaining` the values it has not reached yet, the value it takes next is
\* any remaining value of least count.
NextValues(var, a, remaining) ==
    {value \in remaining :
        \A other \in remaining :
            ValueRuleout(var, a, value) <= ValueRuleout(var, a, other)}

\* Mutant of KeyLess: the degree is not negated, the lowest degree wins a tie.
KeyLessLowDegree(u, v) ==
    \/ Cardinality(domains[u]) < Cardinality(domains[v])
    \/ /\ Cardinality(domains[u]) = Cardinality(domains[v])
       /\ Cardinality(Neighbors(u)) < Cardinality(Neighbors(v))

\* The key select_unassigned_variable gives a variable is less than another's.
KeyLess(u, v) ==
    \/ Cardinality(domains[u]) < Cardinality(domains[v])
    \/ /\ Cardinality(domains[u]) = Cardinality(domains[v])
       /\ -Cardinality(Neighbors(u)) < -Cardinality(Neighbors(v))

\* select_unassigned_variable(assignment): the variables min() may return,
\* those not in the assignment whose key no other's is less than.
SelectUnassignedVariable(a) ==
    LET variable_value_length == {variable \in DOMAIN domains : variable \notin DOMAIN a}
    IN  {v \in variable_value_length :
            \A u \in variable_value_length : ~ KeyLess(u, v)}

\* ---------------------------------------------------------------- backtrack

\* The frame of a backtrack call that has not yet chosen its variable: var,
\* the values of the for loop's list not reached yet, and the assignment and
\* the domains the call was entered with.
NewFrame(a) ==
    [var |-> NoVar, values |-> {}, entry |-> a, entryDomains |-> domains]

Top == stack[Len(stack)]

SetTop(f) == [stack EXCEPT ![Len(stack)] = f]

\* assignment[var] = value
Assign(a, var, value) ==
    [v \in DOMAIN a \cup {var} |-> IF v = var THEN value ELSE a[v]]

\* Mutant of Delete: the entry is left in the assignment.
DeleteNothing(a, var) == a

\* del assignment[var]
Delete(a, var) == [v \in DOMAIN a \ {var} |-> a[v]]

\* Mutant of ResultTruthy: the caller never takes the result for a success.
ResultNeverTruthy == FALSE

\* Python truthiness of what backtrack returned: None and the empty dict are
\* falsy.
ResultTruthy == result = "assignment" /\ DOMAIN assignment # {}

\* solve(), line 94: ac3's return value is dropped and backtrack(dict()) is
\* called.
SolveBacktrack ==
    /\ pc = "ac3_ret"
    /\ assignment' = EmptyAssignment
    /\ stack' = <<NewFrame(EmptyAssignment)>>
    /\ result' = "none"
    /\ pc' = "bt_enter"
    /\ UNCHANGED <<crossword, arg, ret, domains, pending, arcs, defaultArcs, arc, revised,
                   ac3Result, calls, prevCall, domAtCall, solveResult>>

\* Lines 287-292: return the assignment when it is complete, else select the
\* variable and order its values.
BtEnter ==
    /\ pc = "bt_enter"
    /\ IF AssignmentComplete(assignment)
       THEN /\ result' = "assignment"
            /\ pc' = "bt_ret"
            /\ UNCHANGED stack
       ELSE /\ \E var \in SelectUnassignedVariable(assignment) :
                 stack' = SetTop([Top EXCEPT !.var = var, !.values = domains[var]])
            /\ pc' = "bt_loop"
            /\ UNCHANGED result
    /\ UNCHANGED <<crossword, arg, ret, domains, pending, arcs, defaultArcs, arc, revised,
                   ac3Result, calls, prevCall, domAtCall, assignment, solveResult>>

\* Mutant of BtLoop: the for loop never advances, the value assigned stays
\* among the values to try.
BtLoopNoAdvance ==
    /\ pc = "bt_loop"
    /\ IF Top.values # {}
       THEN /\ \E value \in NextValues(Top.var, Top.entry, Top.values) :
                 assignment' = Assign(assignment, Top.var, value)
            /\ pc' = "bt_check"
            /\ UNCHANGED <<stack, result>>
       ELSE /\ result' = "None"
            /\ pc' = "bt_ret"
            /\ UNCHANGED <<stack, assignment>>
    /\ UNCHANGED <<crossword, arg, ret, domains, pending, arcs, defaultArcs, arc, revised,
                   ac3Result, calls, prevCall, domAtCall, solveResult>>

\* Lines 292-293 and 299: the next value is assigned, or, the values being
\* exhausted, the call returns None.
BtLoop ==
    /\ pc = "bt_loop"
    /\ IF Top.values # {}
       THEN /\ \E value \in NextValues(Top.var, Top.entry, Top.values) :
                 /\ stack' = SetTop([Top EXCEPT !.values = @ \ {value}])
                 /\ assignment' = Assign(assignment, Top.var, value)
            /\ pc' = "bt_check"
            /\ UNCHANGED result
       ELSE /\ result' = "None"
            /\ pc' = "bt_ret"
            /\ UNCHANGED <<stack, assignment>>
    /\ UNCHANGED <<crossword, arg, ret, domains, pending, arcs, defaultArcs, arc, revised,
                   ac3Result, calls, prevCall, domAtCall, solveResult>>

\* Lines 294-295: a consistent assignment is searched further by a recursive
\* call; an inconsistent one goes to line 298.
BtCheck ==
    /\ pc = "bt_check"
    /\ IF Consistent(assignment)
       THEN /\ stack' = Append(stack, NewFrame(assignment))
            /\ pc' = "bt_enter"
       ELSE /\ pc' = "bt_del"
            /\ UNCHANGED stack
    /\ UNCHANGED <<crossword, arg, ret, domains, pending, arcs, defaultArcs, arc, revised,
                   ac3Result, calls, prevCall, domAtCall, assignment, result,
                   solveResult>>

\* Line 298: del assignment[var]
BtDel ==
    /\ pc = "bt_del"
    /\ assignment' = Delete(assignment, Top.var)
    /\ pc' = "bt_loop"
    /\ UNCHANGED <<crossword, arg, ret, domains, pending, arcs, defaultArcs, arc, revised,
                   ac3Result, calls, prevCall, domAtCall, stack, result, solveResult>>

\* The call on top of the stack returns `result`: to solve() from the root,
\* else to line 296 of its caller, which returns a truthy result at once.
BtReturn ==
    /\ pc = "bt_ret"
    /\ stack' = SubSeq(stack, 1, Len(stack) - 1)
    /\ IF Len(stack) = 1
       THEN /\ solveResult' = IF result = "assignment"
                              THEN SomeResult(assignment) ELSE NoneResult
            /\ pc' = "done"
       ELSE /\ pc' = IF ResultTruthy THEN "bt_ret" ELSE "bt_del"
            /\ UNCHANGED solveResult
    /\ UNCHANGED <<crossword, arg, ret, domains, pending, arcs, defaultArcs, arc, revised,
                   ac3Result, calls, prevCall, domAtCall, assignment, result>>

\* ---------------------------------------------------------- specifications

\* solve(): enforce_node_consistency(), ac3(), backtrack(dict()).
Next ==
    \/ EnforceNodeConsistency
    \/ Ac3Default
    \/ Ac3Step
    \/ Ac3Exit
    \/ SolveBacktrack
    \/ BtEnter
    \/ BtLoop
    \/ BtCheck
    \/ BtDel
    \/ BtReturn

Spec == Init /\ [][Next]_vars

\* solve() runs in one thread and every call it makes is synchronous: as long
\* as a step of it is enabled, a step is taken.
FairSpec == Spec /\ WF_vars(Next)

NextAc3 ==
    \/ EnforceNodeConsistency
    \/ Ac3Default
    \/ Ac3Explicit
    \/ Ac3Step
    \/ Ac3Exit
    \/ Ac3Again

\* enforce_node_consistency() followed by up to MaxCalls calls of ac3.
SpecAc3 == Init /\ [][NextAc3]_vars

\* ------------------------------------------------- the helpers called alone

\* A client has built the CrosswordCreator, enforced node consistency and
\* holds an assignment of vocabulary words to some of the variables.
InitCalls ==
    /\ \E g \in Grids, W \in Vocabularies :
         crossword = [variables |-> g.variables, length |-> g.length,
                      overlaps |-> g.overlaps, words |-> W]
    /\ domains = NodeConsistent([v \in crossword.variables |-> crossword.words])
    /\ \E S \in SUBSET crossword.variables : assignment \in [S -> crossword.words]
    /\ pc = "call"
    /\ pending = {}
    /\ arcs = <<>>
    /\ defaultArcs = TRUE
    /\ arc = None
    /\ revised = FALSE
    /\ ac3Result = "none"
    /\ calls = 0
    /\ prevCall = NoCall
    /\ domAtCall = domains
    /\ stack = <<>>
    /\ result = "none"
    /\ solveResult = NoneResult
    /\ arg = NoVar
    /\ ret = "none"

\* consistent(assignment)
CallConsistent ==
    /\ pc = "call"
    /\ ret' \in ConsistentOutcomes(assignment)
    /\ pc' = "consistent_ret"
    /\ UNCHANGED <<crossword, arg, domains, pending, arcs, defaultArcs, arc, revised,
                   ac3Result, calls, prevCall, domAtCall, assignment, stack, result,
                   solveResult>>

\* select_unassigned_variable(assignment); with every variable assigned,
\* min() of the empty dict raises ValueError.
CallSelect ==
    /\ pc = "call"
    /\ IF \A variable \in DOMAIN domains : variable \in DOMAIN assignment
       THEN ret' = "ValueError"
       ELSE ret' \in SelectUnassignedVariable(assignment)
    /\ pc' = "select_ret"
    /\ UNCHANGED <<crossword, arg, domains, pending, arcs, defaultArcs, arc, revised,
                   ac3Result, calls, prevCall, domAtCall, assignment, stack, result,
                   solveResult>>

\* order_domain_values(var, assignment)
CallOrder ==
    /\ pc = "call"
    /\ \E var \in Variables :
         /\ arg' = var
         /\ ret' \in OrderDomainValues(var, assignment)
    /\ pc' = "order_ret"
    /\ UNCHANGED <<crossword, domains, pending, arcs, defaultArcs, arc, revised,
                   ac3Result, calls, prevCall, domAtCall, assignment, stack, result,
                   solveResult>>

NextCalls ==
    \/ CallConsistent

\* One call of consistent() on a node-consistent CrosswordCreator.
SpecCalls == InitCalls /\ [][NextCalls]_vars

\* The assignment is one backtrack holds when it calls its two heuristics:
\* words of the domains that consistent() has accepted.
InitHeuristics ==
    /\ InitCalls
    /\ \A v \in DOMAIN assignment : assignment[v] \in domains[v]
    /\ Consistent(assignment)

NextHeuristics ==
    \/ CallSelect
    \/ CallOrder

\* One call of select_unassigned_variable or order_domain_values.
SpecHeuristics == InitHeuristics /\ [][NextHeuristics]_vars

\* ------------------------------------------------------------- properties

\* The three invariants of an assignment (spec.md section 3), stated on the
\* puzzle alone: lengths, distinctness, agreement at every overlap.
Valid(a) ==
    /\ \A v \in DOMAIN a : Len(a[v]) = Length(v)
    /\ \A u, v \in DOMAIN a : u # v => a[u] # a[v]
    /\ \A u, v \in DOMAIN a :
         (u # v /\ Overlaps(u, v) # None) =>
            a[u][Overlaps(u, v)[1] + 1] = a[v][Overlaps(u, v)[2] + 1]

\* A complete assignment over the vocabulary that satisfies them.
IsSolution(a) ==
    /\ DOMAIN a = Variables
    /\ \A v \in Variables : a[v] \in Words
    /\ Valid(a)

ExistsSolution == \E a \in [Variables -> Words] : IsSolution(a)

\* Every word left to x has a word of y that agrees with it at the overlap,
\* for every ordered pair of overlapping variables (x, y).
ArcConsistent(d) ==
    \A p \in AllArcs :
        \A wx \in d[p[1]] :
            \E wy \in d[p[2]] :
                wy[crossword.overlaps[p][2] + 1] = wx[crossword.overlaps[p][1] + 1]

SomeDomainEmpty == \E v \in Variables : domains[v] = {}

SearchPcs == {"bt_enter", "bt_loop", "bt_check", "bt_del", "bt_ret"}

\* C1: whatever solve() returns is None or a complete assignment over the
\* vocabulary with the right lengths, distinct words and agreeing overlaps;
\* when the puzzle has no such assignment it returns None.
C1_SolveSound ==
    pc = "done" =>
        /\ solveResult.isNone \/ IsSolution(solveResult.value)
        /\ ~ ExistsSolution => solveResult.isNone

\* solve() returned an assignment for a three-variable puzzle.
C1_Witness ==
    /\ pc = "done"
    /\ ~ solveResult.isNone
    /\ Cardinality(Variables) = 3

\* C2: when the vocabulary admits a complete consistent assignment, solve()
\* does not return None, whatever the ties resolve to.
C2_SolveComplete ==
    (pc = "done" /\ ExistsSolution) =>
        (~ solveResult.isNone /\ IsSolution(solveResult.value))

\* solve() returned on a solvable puzzle in which AC-3 had removed a word.
C2_Witness ==
    /\ pc = "done"
    /\ ExistsSolution
    /\ domains # NodeConsistent([v \in Variables |-> Words])

\* C3 (as claimed): once ac3 has returned False, solve() returns None without
\* running the backtracking search.
C3_NoSearchAfterFailure ==
    ac3Result = "False" => (pc \notin SearchPcs /\ (pc = "done" => solveResult.isNone))

\* C4 (as claimed): ac3 returns False if some domain is empty when it
\* returns, and True only when the domains are arc consistent and none is
\* empty.
C4_Ac3ReturnValue ==
    (pc = "ac3_ret" /\ defaultArcs) =>
        /\ SomeDomainEmpty => ac3Result = "False"
        /\ ac3Result = "True" => (ArcConsistent(domains) /\ ~ SomeDomainEmpty)

\* C5: when ac3 called with the default worklist returns True, every word
\* left in a domain has a supporting word in every overlapping variable's
\* domain.
C5_ArcConsistency ==
    (pc = "ac3_ret" /\ defaultArcs /\ ac3Result = "True") => ArcConsistent(domains)

\* A default ac3 call returned True after removing words, no domain empty.
C5_Witness ==
    /\ pc = "ac3_ret"
    /\ defaultArcs
    /\ ac3Result = "True"
    /\ domains # domAtCall
    /\ ~ SomeDomainEmpty

\* Two default ac3 calls in a row, the second having just returned.
TwoDefaultCalls ==
    /\ pc = "ac3_ret"
    /\ defaultArcs
    /\ prevCall.made
    /\ prevCall.default

\* C6 (as claimed): the second of two successive ac3 calls leaves every
\* domain as the first call left it.
C6_Idempotent == TwoDefaultCalls => domains = domAtCall

\* C6 (amended): the second of two successive ac3 calls leaves every domain
\* as the first call left it when the first call returned True.
C6_IdempotentAfterTrue ==
    (TwoDefaultCalls /\ prevCall.result = "True") => domains = domAtCall

\* The second call returned after a first call that had removed words and
\* returned True.
C6_Witness ==
    /\ TwoDefaultCalls
    /\ prevCall.result = "True"
    /\ domains # NodeConsistent([v \in Variables |-> Words])
    /\ ~ SomeDomainEmpty

\* C7: a backtrack call that returns None leaves the assignment and the
\* domains as it found them, and at the head of its loop, before the next
\* candidate is tried, the tentative entry is gone.
C7_UndoExact ==
    ((pc = "bt_ret" /\ result = "None") \/ pc = "bt_loop") =>
        (assignment = Top.entry /\ domains = Top.entryDomains)

\* A recursive call returned None after trying candidates of its own.
C7_Witness ==
    /\ pc = "bt_ret"
    /\ result = "None"
    /\ Len(stack) >= 2
    /\ Top.var # NoVar
    /\ domains[Top.var] # {}

\* C8: after enforce_node_consistency every domain is exactly the set of
\* vocabulary words of the variable's length.
C8_NodeConsistency ==
    (pc = "ac3_call" /\ calls = 0) =>
        \A v \in Variables : domains[v] = {w \in Words : Len(w) = Length(v)}

\* The filter removed words from a domain and kept others.
C8_Witness ==
    /\ pc = "ac3_call"
    /\ calls = 0
    /\ \E v \in Variables : domains[v] # {} /\ domains[v] # Words

\* A step of `while arcs` that pops an arc and revises it.
RevisingStep == pc = "ac3_loop" /\ (arcs # <<>> \/ pending # {})

\* C9: revise(x, y) never adds a word to domains[x] and leaves the domain of
\* every other variable, y included, and everything else as it was.
C9_ReviseFrame ==
    [][RevisingStep =>
        /\ domains'[arc'[1]] \subseteq domains[arc'[1]]
        /\ \A v \in Variables : v # arc'[1] => domains'[v] = domains[v]
        /\ DOMAIN domains' = DOMAIN domains
        /\ crossword' = crossword
        /\ assignment' = assignment]_vars

\* revise emptied domains[x] while y's domain kept its words.
C9_Witness ==
    /\ arc # None
    /\ revised
    /\ domains[arc[1]] = {}
    /\ domains[arc[2]] # {}

\* C10: for overlapping x and y, revise(x, y) removes from domains[x] exactly
\* the words no word of domains[y] agrees with at the overlap, and returns
\* True iff it removed one; without an overlap it removes nothing and returns
\* False.
C10_ReviseExact ==
    [][RevisingStep =>
        LET x == arc'[1]
            y == arc'[2]
            o == Overlaps(x, y)
        IN  IF o # None
            THEN /\ domains'[x] =
                      {wx \in domains[x] :
                          \E wy \in domains[y] : wy[o[2] + 1] = wx[o[1] + 1]}
                 /\ revised' <=> (domains'[x] # domains[x])
            ELSE /\ domains' = domains
                 /\ revised' = FALSE]_vars

\* revise removed some words of domains[x] and kept others.
C10_Witness ==
    /\ arc # None
    /\ revised
    /\ domains[arc[1]] # {}
    /\ Overlaps(arc[1], arc[2]) # None

\* revise was applied to a pair that does not overlap.
C10_WitnessNoOverlap ==
    /\ arc # None
    /\ Overlaps(arc[1], arc[2]) = None
    /\ domains[arc[1]] # {}

\* C11: consistent(assignment) returns True exactly when the assigned words
\* are pairwise distinct, each has its variable's length, and every pair of
\* assigned overlapping variables agrees at the overlap.
C11_ConsistentIff ==
    pc = "consistent_ret" => (ret = "True" <=> Valid(assignment))

\* consistent returned True for an assignment of two overlapping variables.
C11_Witness ==
    /\ pc = "consistent_ret"
    /\ ret = "True"
    /\ \E u, v \in DOMAIN assignment : u # v /\ Overlaps(u, v) # None

\* consistent raised IndexError on an assignment with a word too short.
C11_WitnessIndexError == pc = "consistent_ret" /\ ret = "IndexError"

\* consistent returned False on an assignment with a word too short.
C11_WitnessShortFalse ==
    /\ pc = "consistent_ret"
    /\ ret = "False"
    /\ \E v \in DOMAIN assignment : Len(assignment[v]) < Length(v)

\* The variables not in the assignment.
Unassigned == Variables \ DOMAIN assignment

\* The number of variables a variable overlaps.
Degree(v) == Cardinality({u \in Variables : u # v /\ Overlaps(v, u) # None})

\* C12: select_unassigned_variable returns a variable not in the assignment,
\* of least domain size among those, and of greatest degree among those of
\* least domain size.
C12_SelectMrvDegree ==
    pc = "select_ret" =>
        IF Unassigned = {}
        THEN ret = "ValueError"
        ELSE /\ ret \in Unassigned
             /\ \A u \in Unassigned :
                  /\ Cardinality(domains[ret]) <= Cardinality(domains[u])
                  /\ Cardinality(domains[u]) = Cardinality(domains[ret])
                       => Degree(ret) >= Degree(u)

\* The variable returned won a tie on domain size by its degree, and another
\* unassigned variable has a larger domain.
C12_Witness ==
    /\ pc = "select_ret"
    /\ ret \in Unassigned
    /\ \E u \in Unassigned :
         /\ Cardinality(domains[u]) = Cardinality(domains[ret])
         /\ Degree(u) < Degree(ret)
    /\ \E u \in Unassigned : Cardinality(domains[u]) > Cardinality(domains[ret])

\* The elimination count of word w for var: the pairs (u, wu), u an
\* unassigned variable overlapping var and wu a word of domains[u] whose
\* letter at u's offset differs from w's letter at var's offset.
ElimCount(var, w) ==
    Cardinality({p \in Unassigned \X Words :
                    /\ p[1] # var
                    /\ Overlaps(var, p[1]) # None
                    /\ p[2] \in domains[p[1]]
                    /\ p[2][Overlaps(var, p[1])[2] + 1] # w[Overlaps(var, p[1])[1] + 1]})

\* C13: order_domain_values returns every word of domains[var] exactly once,
\* in non-decreasing order of elimination count.
C13_OrderLcv ==
    pc = "order_ret" =>
        /\ Len(ret) = Cardinality(domains[arg])
        /\ {ret[i] : i \in DOMAIN ret} = domains[arg]
        /\ \A i, j \in DOMAIN ret :
             i < j => ElimCount(arg, ret[i]) <= ElimCount(arg, ret[j])

\* The list returned puts a word of smaller count before one of larger
\* count, for a var with an assigned neighbor and an unassigned one.
C13_Witness ==
    /\ pc = "order_ret"
    /\ Len(ret) >= 2
    /\ ElimCount(arg, ret[1]) < ElimCount(arg, ret[Len(ret)])
    /\ \E u \in DOMAIN assignment : u # arg /\ Overlaps(arg, u) # None
    /\ \E u \in Unassigned : u # arg /\ Overlaps(arg, u) # None

\* The complete consistent assignments of the puzzle.
Solutions == {a \in [Variables -> Words] : IsSolution(a)}

\* C14: on a puzzle with exactly one complete consistent assignment, solve()
\* returns that assignment, whatever the worklist order and the ties in
\* variable selection and value ordering resolve to.
C14_UniqueSolution ==
    (pc = "done" /\ Cardinality(Solutions) = 1) =>
        (~ solveResult.isNone /\ solveResult.value \in Solutions)

\* solve() returned on a three-variable puzzle with exactly one solution
\* whose root call had a tie between variables to select.
C14_Witness ==
    /\ pc = "done"
    /\ Cardinality(Solutions) = 1
    /\ Cardinality(Variables) = 3
    /\ Cardinality(SelectUnassignedVariable(EmptyAssignment)) >= 2

\* C15: the assignment of every backtrack call, the root's and every
\* recursive one's, has words of its variables' lengths, no word twice, and
\* agreeing letters where two assigned variables overlap.
C15_InvokedValid ==
    pc \in SearchPcs =>
        /\ \A i \in DOMAIN stack : Valid(stack[i].entry)
        /\ pc = "bt_enter" => Top.entry = assignment

\* A recursive call is entered with two overlapping variables assigned.
C15_Witness ==
    /\ pc = "bt_enter"
    /\ Len(stack) >= 3
    /\ \E u, v \in DOMAIN assignment : u # v /\ Overlaps(u, v) # None

\* C16: once a call of backtrack has returned a complete assignment, each
\* further step only returns it from the enclosing call: no value is tried,
\* no variable selected, no entry of the assignment added or removed, and
\* solve() returns that very assignment.
C16_SuccessPropagates ==
    [][(pc = "bt_ret" /\ result = "assignment") =>
          /\ assignment' = assignment
          /\ result' = result
          /\ stack' = SubSeq(stack, 1, Len(stack) - 1)
          /\ pc' = IF Len(stack) = 1 THEN "done" ELSE "bt_ret"
          /\ pc' = "done" => solveResult' = SomeResult(assignment)]_vars

\* A complete assignment is on its way up, below the deepest call, through a
\* call that still has a value left to try.
C16_Witness ==
    /\ pc = "bt_ret"
    /\ result = "assignment"
    /\ Len(stack) >= 2
    /\ Len(stack) <= Cardinality(Variables)
    /\ \E i \in DOMAIN stack : stack[i].values # {}

\* C17: solve() terminates: ac3 returns, its worklist empty or a domain
\* emptied, and the root call of backtrack returns to solve().
C17_Terminates == <>(pc = "ac3_ret") /\ <>(pc = "done")

\* solve() returned None on a three-variable puzzle after ac3 had emptied its
\* worklist and the search had tried a value in a recursive call.
C17_Witness ==
    /\ pc = "done"
    /\ solveResult.isNone
    /\ ac3Result = "True"
    /\ ~ SomeDomainEmpty
    /\ Cardinality(Variables) = 3

\* The number of backtrack calls nested below the root call.
Depth == Len(stack) - 1

\* C18 (as claimed): at every point of the search the number of nested calls
\* below the root equals the number of variables in the assignment.
C18_DepthEquals ==
    pc \in SearchPcs => Depth = Cardinality(DOMAIN assignment)

\* C18 (amended): the number of nested calls below the root never exceeds
\* the number of variables in the assignment, hence the number of variables
\* of the puzzle; the two are equal when a call is entered, at the head of
\* its loop and when it returns None, and the assignment holds one entry
\* more between the assignment of a value and the recursive call or the
\* deletion that follows.
C18_DepthBounded ==
    pc \in SearchPcs =>
        /\ Depth <= Cardinality(DOMAIN assignment)
        /\ Depth <= Cardinality(Variables)
        /\ (pc \in {"bt_enter", "bt_loop"} \/ (pc = "bt_ret" /\ result = "None"))
             => Depth = Cardinality(DOMAIN assignment)
        /\ pc \in {"bt_check", "bt_del"} => Depth + 1 = Cardinality(DOMAIN assignment)

\* A recursive call has assigned a value that consistent() rejected: the
\* entry is in the assignment and no call was made for it.
C18_Witness ==
    /\ pc = "bt_del"
    /\ Depth >= 1
    /\ ~ Consistent(assignment)

\* C19: ac3 never removes from a variable's domain a word the variable
\* takes in some complete consistent assignment, neither in the states of
\* its loop nor when it returns, True or False.
C19_KeepsSolutions ==
    pc \in {"ac3_loop", "ac3_ret"} =>
        \A s \in Solutions : \A v \in Variables : s[v] \in domains[v]

\* ac3 is in its loop on a solvable puzzle, a word removed and arcs left in
\* the worklist.
C19_Witness ==
    /\ pc = "ac3_loop"
    /\ Solutions # {}
    /\ domains # NodeConsistent([v \in Variables |-> Words])
    /\ (arcs # <<>> \/ pending # {})

\* ac3 stopped early and returned False with arcs left in the worklist.
C19_WitnessFalse ==
    /\ pc = "ac3_ret"
    /\ ac3Result = "False"
    /\ (arcs # <<>> \/ pending # {})

====
